---- MODULE Spec2Model ----
(***************************************************************************)
(* Turn-taking controller of static/js/main.js: speech capture, the        *)
(* 5000 ms silence deadline, the conversation-service requests, speech     *)
(* output and the delayed restarts, as one event-driven state machine.     *)
(* Every handler of the script is one action; the browser's recognition    *)
(* and synthesis engines are modelled by the events they may deliver.      *)
(* Time is not measured: a pending timeout may expire at any later step.   *)
(* The buttons are taken to be usable on the screen showScreen made        *)
(* active: start on the welcome screen; send, Enter and end on the         *)
(* conversation screen.  Of what the user is shown, the alert() dialogs    *)
(* are kept.  Left out: the voice choice (loadVoices), the DOM updates,    *)
(* speechSynthesis.pause/resume on visibilitychange, and the unload        *)
(* handlers, which run when the page is being left.                        *)
(***************************************************************************)
EXTENDS Naturals, Sequences, FiniteSets

\* ---------------------------------------------------------------- bounds
\* Outstanding instances of one kind of delayed callback, of one kind of
\* request, and of cancelled utterances whose event is still undelivered.
MaxPending == 1
\* POST /send_message requests in flight at once.
MaxInFlight == 2
\* POST /end_conversation requests in flight at once.
MaxClose == 2
\* POST /start_conversation requests in flight at once where the start button
\* is activated again while the first request is pending.
MaxCreate == 2
\* Final fragments the engine delivers between two resets of the buffer.
MaxFrags == 2
\* Results carried by one onresult event (event.resultIndex .. length-1).
MaxResults == 2

\* ------------------------------------------------------------ input sets
\* Transcripts the engine may report: a word, a word with the leading blank
\* the engine puts before a continued phrase, and an empty transcript.
Transcripts == { <<"a">>, <<" ", "b">>, <<>> }
\* textInput.value.trim() when a key or the send button is pressed.
TypedTexts == { <<>>, <<"t">> }
\* data.greeting / data.response of the service: missing (empty) or a text.
ServiceTexts == { <<>>, <<"r">> }
\* event.error of recognition.onerror.
ErrorCodes == { "no-speech", "aborted", "network" }
\* One entry of event.results.
Results == [transcript : Transcripts, isFinal : {TRUE}]
             \cup [transcript : {<<"i">>}, isFinal : {FALSE}]
Events == UNION { [1..n -> Results] : n \in 1..MaxResults }
\* The events of a plain dictation: one final word, or one interim guess.
BriefEvents == { <<[transcript |-> <<"a">>, isFinal |-> TRUE]>>,
                 <<[transcript |-> <<"i">>, isFinal |-> FALSE]>> }

VARIABLES
    recognition,      \* TRUE iff setupSpeechRecognition created the engine object
    isListening,      \* line 24
    conversationId,   \* line 22: "null" or "id"
    silenceTimer,     \* line 31: id of the last armed silence timeout
    finalTranscript,  \* line 32
    interimTranscript,\* line 33
    timerActive,      \* the interval timerInterval (line 25) refers to is running
    orphanIntervals,  \* running intervals whose id was overwritten in timerInterval
    screen,           \* "welcome", "conversation", or "navigated" (page left)
    rec,              \* recognition engine
    synth,            \* speechSynthesis.speaking
    cancelledPending, \* cancelled utterances whose end/error event is undelivered
    silencePending,   \* ids of the silence timeouts not yet fired nor cleared
    t100,             \* pending onend restart callbacks (line 127)
    t1000e,           \* pending onerror restart callbacks (line 113)
    t500s,            \* pending utterance-completion callbacks (lines 190, 198)
    t500e,            \* pending empty-turn resume callbacks (line 250)
    t1000f,           \* pending service-failure resume callbacks (line 356)
    createPending,    \* POST /start_conversation in flight
    sendQueue,        \* message texts of the POST /send_message in flight
    closePending,     \* POST /end_conversation in flight
    frags,            \* history: final transcripts delivered since the buffer reset
    alerted           \* the alert() raised by the handler that ran last, or "none"

vars == << recognition, isListening, conversationId, silenceTimer, finalTranscript,
           interimTranscript, timerActive, orphanIntervals, screen, rec,
           synth, cancelledPending, silencePending, t100, t1000e, t500s, t500e,
           t1000f, createPending, sendQueue, closePending, frags, alerted >>

\* ---------------------------------------------------------- text helpers
\* String.prototype.trim on a sequence of characters.
RECURSIVE TrimLeft(_)
TrimLeft(s) == IF s # <<>> /\ Head(s) = " " THEN TrimLeft(Tail(s)) ELSE s

RECURSIVE TrimRight(_)
TrimRight(s) ==
    IF s # <<>> /\ s[Len(s)] = " " THEN TrimRight(SubSeq(s, 1, Len(s) - 1)) ELSE s

Trim(s) == TrimRight(TrimLeft(s))

\* ---------------------------------------------------------- state record
\* The handlers are written as functions from state to state, so that a
\* handler calling another (speak -> stopListening) composes them.
St == [ recognition |-> recognition, isListening |-> isListening,
        conversationId |-> conversationId, silenceTimer |-> silenceTimer,
        finalTranscript |-> finalTranscript, interimTranscript |-> interimTranscript,
        timerActive |-> timerActive, orphanIntervals |-> orphanIntervals,
        screen |-> screen, rec |-> rec, synth |-> synth,
        cancelledPending |-> cancelledPending, silencePending |-> silencePending,
        t100 |-> t100, t1000e |-> t1000e, t500s |-> t500s, t500e |-> t500e,
        t1000f |-> t1000f, createPending |-> createPending,
        sendQueue |-> sendQueue, closePending |-> closePending,
        frags |-> frags, alerted |-> "none" ]

Fits(s) ==
    /\ s.t100 <= MaxPending /\ s.t1000e <= MaxPending /\ s.t500s <= MaxPending
    /\ s.t500e <= MaxPending /\ s.t1000f <= MaxPending
    /\ s.createPending <= MaxCreate /\ Len(s.sendQueue) <= MaxInFlight
    /\ s.closePending <= MaxClose /\ s.cancelledPending <= MaxPending
    /\ s.orphanIntervals <= MaxPending
    /\ Len(s.frags) <= MaxFrags

Commit(s) ==
    /\ Fits(s)
    /\ recognition' = s.recognition /\ isListening' = s.isListening
    /\ conversationId' = s.conversationId /\ silenceTimer' = s.silenceTimer
    /\ finalTranscript' = s.finalTranscript
    /\ interimTranscript' = s.interimTranscript
    /\ timerActive' = s.timerActive /\ orphanIntervals' = s.orphanIntervals
    /\ screen' = s.screen /\ rec' = s.rec /\ synth' = s.synth
    /\ cancelledPending' = s.cancelledPending /\ silencePending' = s.silencePending
    /\ t100' = s.t100 /\ t1000e' = s.t1000e /\ t500s' = s.t500s /\ t500e' = s.t500e
    /\ t1000f' = s.t1000f /\ createPending' = s.createPending
    /\ sendQueue' = s.sendQueue /\ closePending' = s.closePending
    /\ frags' = s.frags /\ alerted' = s.alerted

\* ------------------------------------------------------ platform engines
\* recognition.start(): starts an idle engine; throws InvalidStateError
\* (caught at line 215) while a previous session has not ended yet.
EngineStart(s) ==
    IF s.rec = "idle"
    THEN [s EXCEPT !.rec = "starting"]
    ELSE s

\* recognition.stop(): the engine winds down and will deliver onend; a stop
\* before onstart may still be followed by that onstart.
EngineStop(s) ==
    [s EXCEPT !.rec = CASE s.rec = "starting" -> "stoppingEarly"
                        [] s.rec = "running" -> "stopping"
                        [] OTHER -> s.rec]

\* clearTimeout(silenceTimer)
ClearSilence(s) == [s EXCEPT !.silencePending = s.silencePending \ {s.silenceTimer}]

\* setTimeout(..., 5000) returns an id no pending timeout has; 0 is the
\* initial null of silenceTimer.
FreshId(s) == CHOOSE i \in 1..(Cardinality(s.silencePending) + 1) :
                  i \notin s.silencePending

ArmSilence(s) ==
    LET id == FreshId(s)
    IN  [s EXCEPT !.silenceTimer = id, !.silencePending = s.silencePending \cup {id}]

\* speechSynthesis.cancel(): the utterance being spoken stops and the engine
\* owes it an end or error event.
SynthCancel(s) ==
    IF s.synth = "speaking"
    THEN [s EXCEPT !.synth = "idle", !.cancelledPending = s.cancelledPending + 1]
    ELSE s

\* ------------------------------------------------------------- functions
stopTimer(s) == [s EXCEPT !.timerActive = FALSE]

startTimer(s) ==
    [s EXCEPT !.timerActive = TRUE,
              !.orphanIntervals = IF s.timerActive THEN s.orphanIntervals + 1
                                                   ELSE s.orphanIntervals]

stopListening(s) ==
    IF ~s.recognition THEN s
    ELSE EngineStop(ClearSilence([s EXCEPT !.isListening = FALSE]))

startListening(s) ==
    IF ~s.recognition \/ s.isListening THEN s
    ELSE EngineStart([s EXCEPT !.finalTranscript = <<>>, !.interimTranscript = <<>>,
                               !.frags = <<>>])

speak(s, text) ==
    IF text = <<>> THEN s
    ELSE LET c == SynthCancel(stopListening(s))
         IN  [c EXCEPT !.synth = "speaking"]

sendMessage(s, msg) ==
    IF msg = <<>> \/ s.conversationId = "null" THEN s
    ELSE [s EXCEPT !.sendQueue = Append(s.sendQueue, msg)]

\* stopListeningAndSend deciding on the untrimmed buffer.
stopListeningAndSendUntrimmed(s) ==
    LET messageToSend == s.finalTranscript
        t == stopListening(s)
    IN  IF messageToSend # <<>> THEN sendMessage(t, messageToSend)
        ELSE [t EXCEPT !.t500e = t.t500e + 1]

stopListeningAndSend(s) ==
    LET messageToSend == Trim(s.finalTranscript)
        t == stopListening(s)
    IN  IF messageToSend # <<>> THEN sendMessage(t, messageToSend)
        ELSE [t EXCEPT !.t500e = t.t500e + 1]

cleanupEverything(s) ==
    stopTimer(ClearSilence(stopListening(
        IF s.synth = "speaking" THEN SynthCancel(s) ELSE s)))

endConversation(s) ==
    LET t == SynthCancel(stopListening(stopTimer(s)))
    IN  [t EXCEPT !.closePending = t.closePending + 1]

\* The loop appending the final transcripts without the separating blank.
RECURSIVE AccumulateNoBlank(_, _, _)
AccumulateNoBlank(s, ev, i) ==
    IF i > Len(ev) THEN s
    ELSE AccumulateNoBlank(
            IF ev[i].isFinal
            THEN [s EXCEPT !.finalTranscript = s.finalTranscript \o ev[i].transcript,
                           !.frags = Append(s.frags, ev[i].transcript)]
            ELSE [s EXCEPT !.interimTranscript = s.interimTranscript \o ev[i].transcript],
            ev, i + 1)

\* recognition.onresult, lines 80-88: the loop over event.results.
RECURSIVE Accumulate(_, _, _)
Accumulate(s, ev, i) ==
    IF i > Len(ev) THEN s
    ELSE Accumulate(
            IF ev[i].isFinal
            THEN [s EXCEPT !.finalTranscript = s.finalTranscript \o ev[i].transcript \o <<" ">>,
                           !.frags = Append(s.frags, ev[i].transcript)]
            ELSE [s EXCEPT !.interimTranscript = s.interimTranscript \o ev[i].transcript],
            ev, i + 1)

\* onresult arming a new silence timer without clearing the previous one.
onresultNoClear(s, ev) ==
    ArmSilence(Accumulate([s EXCEPT !.interimTranscript = <<>>], ev, 1))

onresult(s, ev) ==
    ArmSilence(Accumulate([ClearSilence(s) EXCEPT !.interimTranscript = <<>>], ev, 1))

\* The body of recognition.onerror without the early return for no-speech.
onerrorNoReturn(s, code) ==
    IF code # "aborted" THEN [s EXCEPT !.t1000e = s.t1000e + 1] ELSE s

\* The body of recognition.onerror (lines 101-119): no-speech returns at
\* once; any code but aborted schedules the 1000 ms restart callback.
onerror(s, code) ==
    IF code = "no-speech" THEN s
    ELSE IF code # "aborted" THEN [s EXCEPT !.t1000e = s.t1000e + 1]
    ELSE s

\* The restart callback without its isListening test.
restartAlways(s) == startListening(s)

\* The callbacks of lines 113-117 and 127-131.
restartIfListening(s) == IF s.isListening THEN startListening(s) ELSE s


\* ------------------------------------------------------------------ Init
\* The state once the script has loaded and DOMContentLoaded has run
\* setupSpeechRecognition (line 459); the platform may lack the engine.
Init ==
    /\ recognition \in BOOLEAN
    /\ isListening = FALSE
    /\ conversationId = "null"
    /\ silenceTimer = 0
    /\ finalTranscript = <<>>
    /\ interimTranscript = <<>>
    /\ timerActive = FALSE
    /\ orphanIntervals = 0
    /\ screen = "welcome"
    /\ rec = "idle"
    /\ synth = "idle"
    /\ cancelledPending = 0
    /\ silencePending = {}
    /\ t100 = 0 /\ t1000e = 0 /\ t500s = 0 /\ t500e = 0 /\ t1000f = 0
    /\ createPending = 0 /\ sendQueue = <<>> /\ closePending = 0
    /\ frags = <<>>
    /\ alerted = IF recognition THEN "none" ELSE "unsupported"

\* The page is still loaded: after window.location.href is assigned
\* (line 382) no handler of this script runs again.
Live == screen # "navigated"

\* ---------------------------------------------------- user and countdown
\* startBtn.onclick; startConversation up to its fetch (lines 297-309).
StartClickUpTo(n) ==
    /\ Live /\ screen = "welcome" /\ createPending < n
    /\ LET s == St
       IN  Commit([s EXCEPT !.createPending = s.createPending + 1])

\* One activation of the start button per attempt.
StartClick == StartClickUpTo(MaxPending)

\* The start button activated again while a request is pending.
StartClickAgain == StartClickUpTo(MaxCreate)

\* startConversation after the fetch settles (lines 310-331).
CreateReply ==
    /\ Live /\ createPending > 0
    /\ \E ok \in BOOLEAN, greeting \in ServiceTexts :
         LET s == [St EXCEPT !.createPending = createPending - 1]
         IN  IF ok
             THEN Commit(startTimer(speak(
                      [s EXCEPT !.conversationId = "id", !.screen = "conversation"],
                      greeting)))
             ELSE Commit([s EXCEPT !.alerted = "start"])

\* textInput.onkeypress with Enter (lines 418-425).
EnterKey ==
    /\ Live /\ screen = "conversation"
    /\ \E msg \in TypedTexts :
         LET s == St
         IN  Commit(IF msg # <<>> THEN sendMessage(s, msg) ELSE s)

\* sendBtn.onclick (lines 396-403).
SendClick ==
    /\ Live /\ screen = "conversation"
    /\ \E msg \in TypedTexts :
         LET s == St
         IN  Commit(IF msg # <<>> THEN sendMessage(stopListeningAndSend(s), msg) ELSE s)

\* sendMessage after its fetch settles (lines 347-357).
SendReply ==
    /\ Live /\ sendQueue # <<>>
    /\ \E ok \in BOOLEAN, response \in ServiceTexts :
         LET s == [St EXCEPT !.sendQueue = Tail(sendQueue)]
         IN  IF ok THEN Commit(speak(s, response))
             ELSE Commit([s EXCEPT !.t1000f = s.t1000f + 1])

\* endBtn.onclick (line 407).
EndClick ==
    /\ Live /\ screen = "conversation"
    /\ Commit(endConversation(St))

\* The setInterval callback of startTimer (lines 256-263). The value of
\* timeRemaining is not kept: a tick either finds it above zero, and changes
\* only the display, or finds it at or below zero, and ends the conversation.
Tick ==
    /\ Live /\ (timerActive \/ orphanIntervals > 0)
    /\ \E zero \in BOOLEAN : Commit(IF zero THEN endConversation(St) ELSE St)

\* endConversation after its fetch settles (lines 376-387).
CloseReply ==
    /\ Live /\ closePending > 0
    /\ \E ok \in BOOLEAN :
         LET s == [St EXCEPT !.closePending = closePending - 1]
         IN  IF ok THEN Commit([cleanupEverything(s) EXCEPT !.screen = "navigated"])
             ELSE Commit([s EXCEPT !.alerted = "end"])

\* --------------------------------------------------- recognition events
\* recognition.onstart (lines 63-71).
OnStart ==
    /\ Live /\ recognition /\ rec \in {"starting", "stoppingEarly"}
    /\ LET s == St
       IN  Commit([s EXCEPT !.isListening = TRUE,
                            !.rec = IF rec = "starting" THEN "running" ELSE "stopping"])

\* recognition.onresult (lines 73-99); a stopping engine still returns the
\* results of the audio captured so far.
OnResultOf(events) ==
    /\ Live /\ recognition /\ rec \in {"running", "stopping"}
    /\ \E ev \in events : Commit(onresult(St, ev))

OnResult == OnResultOf(BriefEvents)

OnResultRich == OnResultOf(Events)

\* recognition.onerror (lines 101-119); the engine session ends after it.
OnErrorOf(code) ==
    /\ Live /\ recognition /\ rec \in {"starting", "running", "stopping", "stoppingEarly"}
    /\ Commit(onerror([St EXCEPT !.rec = "failing"], code))

OnError == \E code \in ErrorCodes : OnErrorOf(code)

\* recognition.onend (lines 121-133).
OnEnd ==
    /\ Live /\ recognition /\ rec \in {"running", "stopping", "stoppingEarly", "failing"}
    /\ LET s == [St EXCEPT !.rec = "idle"]
       IN  Commit(IF s.isListening THEN [s EXCEPT !.t100 = s.t100 + 1] ELSE s)

\* ----------------------------------------------------- synthesis events
\* utterance.onend / utterance.onerror of the utterance being spoken
\* (lines 188-202), up to the setTimeout.
UtteranceDone ==
    /\ Live /\ synth = "speaking"
    /\ \E kind \in {"end", "error"} :
         LET s == [St EXCEPT !.synth = "idle"]
         IN  Commit([s EXCEPT !.t500s = s.t500s + 1])

\* The same handlers, delivered for an utterance that cancel() cut short.
CancelledDone ==
    /\ Live /\ cancelledPending > 0
    /\ \E kind \in {"end", "error"} :
         LET s == [St EXCEPT
                       !.cancelledPending = cancelledPending - 1]
         IN  Commit([s EXCEPT !.t500s = s.t500s + 1])

\* ------------------------------------------------------ delayed callbacks
\* The 100 ms callback of onend (lines 127-131).
T100Fire ==
    /\ Live /\ t100 > 0
    /\ Commit(restartIfListening([St EXCEPT !.t100 = t100 - 1]))

\* The 1000 ms callback of onerror (lines 113-117).
T1000eFire ==
    /\ Live /\ t1000e > 0
    /\ Commit(restartIfListening([St EXCEPT !.t1000e = t1000e - 1]))

\* The 500 ms callback of utterance.onend / onerror (lines 190-193, 198-201).
T500sFire ==
    /\ Live /\ t500s > 0
    /\ Commit(startListening([St EXCEPT !.t500s = t500s - 1]))

\* The 500 ms callback of stopListeningAndSend (line 250).
T500eFire ==
    /\ Live /\ t500e > 0
    /\ Commit(startListening([St EXCEPT !.t500e = t500e - 1]))

\* The 1000 ms callback of sendMessage's catch (line 356).
T1000fFire ==
    /\ Live /\ t1000f > 0
    /\ Commit(startListening([St EXCEPT !.t1000f = t1000f - 1]))

\* The 5000 ms silence callback (lines 95-98).
SilenceFire ==
    /\ Live
    /\ \E id \in silencePending :
         Commit(stopListeningAndSend(
             [St EXCEPT !.silencePending = silencePending \ {id}]))

Next ==
    \/ StartClick \/ CreateReply \/ EnterKey \/ SendClick \/ SendReply
    \/ EndClick \/ Tick \/ CloseReply
    \/ OnStart \/ OnResult \/ OnError \/ OnEnd
    \/ UtteranceDone \/ CancelledDone
    \/ T100Fire \/ T1000eFire \/ T500sFire \/ T500eFire \/ T1000fFire \/ SilenceFire

\* Every handler, with the engine delivering plain dictation events.
Spec == Init /\ [][Next]_vars

\* The automatic voice loop alone (no typed message, no session end, an
\* engine that reports no error), with the engine delivering every shape of
\* result event.
NextDialogue ==
    \/ StartClick \/ CreateReply \/ SendReply
    \/ OnStart \/ OnResultRich \/ OnEnd
    \/ UtteranceDone \/ CancelledDone
    \/ T100Fire \/ T500sFire \/ T500eFire \/ T1000fFire \/ SilenceFire

SpecDialogue == Init /\ [][NextDialogue]_vars

\* The start of a session with an impatient user: the start button may be
\* activated again while the page shows the loading state; then the greeting
\* is spoken, capture resumes and the countdown runs until the request that
\* ends the session settles.
NextStart ==
    \/ StartClickAgain \/ CreateReply
    \/ UtteranceDone \/ CancelledDone \/ T500sFire
    \/ OnStart \/ OnEnd \/ T100Fire
    \/ Tick \/ CloseReply

SpecStart == Init /\ [][NextStart]_vars


\* ================================================================ claims
\* Capture is active: recognition.start() was accepted and neither a stop
\* nor the end of the engine session followed.
CaptureActive == rec \in {"starting", "running"}

\* Output is active: an utterance is being spoken.
OutputActive == synth = "speaking"

\* String.prototype.join(" ") over the final fragments.
RECURSIVE JoinSp(_)
JoinSp(fs) ==
    IF fs = <<>> THEN <<>>
    ELSE IF Len(fs) = 1 THEN fs[1]
    ELSE fs[1] \o <<" ">> \o JoinSp(Tail(fs))

\* C1: recognition capture is never active while speech output is in
\* progress, under every interleaving of handlers, engine events and timers.
C1_NeverListenWhileSpeaking == ~(CaptureActive /\ OutputActive)

\* C2: at most one send_message request is in flight at a time.
C2_OneUtteranceInFlight == Len(sendQueue) <= 1

\* C3: when the silence deadline expires after final results whose joined
\* text is not blank, exactly one send_message request is issued, and its
\* text is the trimmed, space-joined concatenation of the final fragments in
\* delivery order (no interim text).
C3_SilenceSubmitsFinalText ==
    [][ (SilenceFire /\ Trim(JoinSp(frags)) # <<>>)
          => sendQueue' = Append(sendQueue, Trim(JoinSp(frags))) ]_vars

C3_Witness ==
    /\ Len(frags) = 2 /\ interimTranscript # <<>>
    /\ sendQueue = << Trim(JoinSp(frags)) >>
    /\ rec = "stopping" /\ ~isListening /\ silencePending = {}

C5_OneSilenceTimer ==
    /\ Cardinality(silencePending) <= 1
    /\ silencePending \subseteq {silenceTimer}

C5_Witness == Len(frags) = 2 /\ silencePending = {silenceTimer} /\ rec = "running"

\* C6: whenever capture has been stopped, no silence timer is pending.
C6_NoDeadlineAfterStop ==
    (~isListening /\ ~CaptureActive) => silencePending = {}

\* C7: while the POST /end_conversation of one endConversation call is in
\* flight, invoking endConversation again issues no further request.
C7_EndIdempotent == [][ closePending > 0 => closePending' <= closePending ]_vars

\* C8: once endConversation has been invoked (its request is in flight), no
\* continuation that was outstanding (a resume callback or a send_message
\* reply) starts recognition, starts speech synthesis or issues a send.
C8_NothingAfterEnd ==
    [][ (closePending > 0 /\ (T500sFire \/ T500eFire \/ T1000fFire \/ SendReply))
          => /\ ~(rec # "starting" /\ rec' = "starting")
             /\ ~(synth # "speaking" /\ synth' = "speaking")
             /\ Len(sendQueue') <= Len(sendQueue) ]_vars

\* C9: the delayed restart callbacks of onerror (1000 ms) and onend (100 ms)
\* never call startListening for an attempt that was stopped: neither
\* recognition.start() nor the buffer reset before it takes place.
C9_NoRestartAfterStop ==
    [][ (T100Fire \/ T1000eFire)
          => (rec' = rec /\ finalTranscript' = finalTranscript /\ frags' = frags) ]_vars

C9_Witness ==
    ~isListening /\ rec = "idle" /\ t100 > 0 /\ t1000e > 0 /\ frags # <<>>

\* C10: when the 100 ms callback of onend runs with isListening still set
\* and the engine session ended, recognition.start() is called.
C10_AutoEndRestarts ==
    [][ (T100Fire /\ isListening /\ rec = "idle") => rec' = "starting" ]_vars

\* C11: after one recognition failure while listening (an error other than
\* no-speech, then the engine's onend), the recovery callbacks restart the
\* engine: when the 1000 ms callback of onerror runs after the 100 ms
\* callback of onend, with isListening still set and the engine session
\* ended, recognition has been started by the time it returns.
C11_FailureRestartsOnce ==
    [][ (T1000eFire /\ isListening /\ rec = "idle" /\ t100 = 0)
          => rec' = "starting" ]_vars

\* Nothing but the one 500 ms callback of a finished utterance is
\* outstanding: no other delayed callback, no request, no silence timer and
\* no event owed by the synthesiser.
OnlySpeechResumeLeft ==
    /\ t500s = 1 /\ t100 = 0 /\ t1000e = 0 /\ t500e = 0 /\ t1000f = 0
    /\ createPending = 0 /\ sendQueue = <<>> /\ closePending = 0
    /\ cancelledPending = 0 /\ silencePending = {}

\* C12: when the 500 ms callback of a finished utterance (onend or onerror)
\* runs in a session that has not been ended (the countdown is running, no
\* end request was made), with recognition supported, the engine session
\* ended, nothing being spoken and no other continuation outstanding,
\* recognition capture is active when the callback returns.
C12_SpeechEndResumesCapture ==
    [][ (T500sFire /\ OnlySpeechResumeLeft /\ recognition /\ timerActive
            /\ rec = "idle" /\ ~OutputActive)
          => CaptureActive' ]_vars

\* C13: when a send_message request fails, the handler raises a
\* user-visible error (an alert), starts no speech synthesis and schedules
\* the 1000 ms resume; and that resume, run with capture stopped and the
\* engine session ended, starts recognition.
C13_SendFailureSurfaced ==
    [][ /\ (SendReply /\ t1000f' = t1000f + 1)
            => (alerted' # "none" /\ synth' = synth /\ cancelledPending' = cancelledPending)
        /\ (T1000fFire /\ recognition /\ ~isListening /\ rec = "idle")
            => rec' = "starting" ]_vars

\* C14: while a POST /start_conversation is in flight or a session exists,
\* no step issues a further POST /start_conversation, and no countdown
\* interval is ever left running beside the one timerInterval refers to.
C14_StartOnlyFromIdle ==
    [][ /\ (createPending > 0 \/ conversationId # "null")
            => createPending' <= createPending
        /\ orphanIntervals' = 0 ]_vars

\* C15: speak(text, onDone) invokes onDone exactly once, for every text.
\* onDone is invoked only by the 500 ms callback that the utterance's onend
\* or onerror schedules, and startConversation makes the one call of speak
\* that passes an onDone. So: when startConversation succeeds, the utterance
\* carrying onDone is being spoken, and the end or error of an utterance
\* schedules exactly one callback.
C15_OnDoneExactlyOnce ==
    [][ /\ (CreateReply /\ alerted' = "none") => OutputActive'
        /\ UtteranceDone => t500s' = t500s + 1 ]_vars

\* C16: when the POST /end_conversation fails (the handler has just raised
\* the "Failed to end conversation" alert), the teardown made by
\* endConversation is in effect: capture is stopped, nothing is spoken, no
\* silence timer is pending and the countdown is stopped.
C16_TeardownSurvivesFailure ==
    alerted = "end"
      => /\ ~CaptureActive /\ ~isListening
         /\ ~OutputActive
         /\ silencePending = {}
         /\ ~timerActive

\* C17: handling the recognition error 'no-speech' leaves isListening,
\* finalTranscript, interimTranscript and the pending silence timer
\* unchanged and schedules no restart callback.
C17_NoSpeechIgnored ==
    [][ OnErrorOf("no-speech")
          => /\ isListening' = isListening
             /\ finalTranscript' = finalTranscript
             /\ interimTranscript' = interimTranscript
             /\ silenceTimer' = silenceTimer /\ silencePending' = silencePending
             /\ t1000e' = t1000e /\ t100' = t100 ]_vars

C17_Witness ==
    /\ rec = "failing" /\ isListening /\ t1000e = 0 /\ t100 = 0
    /\ silencePending = {silenceTimer} /\ finalTranscript # <<>>
    /\ interimTranscript # <<>>

\* C18: the buffer is reset only where a capture attempt begins, so between
\* a stop and the next start the text of the stopped attempt is not
\* submitted (again): no request issued while capture is stopped carries the
\* text of the buffer.
C18_NoResubmission ==
    [][ (~isListening /\ ~CaptureActive)
          => \A i \in (Len(sendQueue) + 1)..Len(sendQueue') :
                 sendQueue'[i] # Trim(finalTranscript) ]_vars

\* C19: when the reply to the one submitted utterance is handled while
\* capture is stopped and nothing else is outstanding (no delayed callback,
\* no silence timer, nothing spoken), the handler leaves something that
\* brings capture back: an utterance being spoken, whose end resumes
\* capture, or the 1000 ms resume of the failure path, or capture itself.
C19_EveryReplyResumes ==
    [][ (SendReply /\ recognition /\ ~isListening /\ rec = "idle"
            /\ Len(sendQueue) = 1 /\ ~OutputActive /\ cancelledPending = 0
            /\ silencePending = {} /\ createPending = 0
            /\ t100 = 0 /\ t500s = 0 /\ t500e = 0 /\ t1000f = 0)
          => (OutputActive' \/ t1000f' = 1 \/ CaptureActive') ]_vars

\* C20: isListening turns from false to true only through the onstart of
\* a recognition.start() that no stop has followed: never while the engine
\* is winding down after stopListening().
C20_StopNotOverridden ==
    [][ (~isListening /\ isListening') => rec = "starting" ]_vars

====
